---- MODULE Spec2Model ----
(***************************************************************************)
(* Pomodoro / revision timer: the timer model (PomodoroTimer,              *)
(* RevisionTimer), the persistence manager (DataManager) and the countdown *)
(* driver with its presentation-thread handlers (PomodoroApplication).     *)
(***************************************************************************)
EXTENDS Integers, Sequences, FiniteSets, TLC

VARIABLES
    timer,            \* the object PomodoroApplication.timer refers to
    is_timer_active,  \* PomodoroApplication.is_timer_active
    timer_type_var,   \* PomodoroApplication.timer_type_var (combobox value)
    threads,          \* the threads started on timer_countdown, by slot
    after_queue,      \* callbacks queued on the Tk main loop with root.after
    signals,          \* completion signals sent since remaining_time was last > 0
    pause_mark,       \* whether the timer is paused, and remaining_time at the pause
    primary_file,     \* the file DataManager.filename
    backup_file,      \* the file DataManager.backup_filename
    loaded,           \* what the last load_timer_data call returned
    io,               \* what the file system did to the last call's reads and writes
    op,               \* the last call made: its name and what it returned
    call_arg,         \* the mapping handed to the last recorded update_config
    stats             \* what the last get_statistics call returned

vars == <<timer, is_timer_active, timer_type_var, threads, after_queue, signals,
          pause_mark, primary_file, backup_file, loaded, io, op, call_arg,
          stats>>

appVars == <<is_timer_active, timer_type_var, threads, after_queue, signals,
            pause_mark>>
diskVars == <<primary_file, backup_file, loaded, io>>

----------------------------------------------------------------------------
(* Bounds of the model *)

\* minutes a constructor or update_config argument may name: 0..MaxMinutes
MaxMinutes == 2
\* complete_session calls explored from a fresh timer in the cycle runs
MaxCycle == 12
\* session records explored where configuration updates interleave
MaxRecords == 2
\* timer_countdown threads that may be alive at once
MaxThreads == 2
\* handle_session_completion callbacks that may wait on the main loop at once
MaxPending == 2
\* minutes a constructor argument may name where the countdown is run
AppMinutes == 1
\* the longest history a timer asked for its statistics has
MaxHistory == 6
\* the longest history whose session numbers are followed
MaxNumbered == 4
\* the largest sessions_until_long_break of the cadence runs
MaxPeriod == 4

(* Program constants *)

SecondsPerMinute == 60
DefaultSessionsUntilLongBreak == 4
DefaultDailyGoalMinutes == 120
DefaultRevisionMinutes == 60
DefaultWorkMinutes == 25
DefaultShortBreakMinutes == 5
DefaultLongBreakMinutes == 15

----------------------------------------------------------------------------
(* Values *)

EmptyMap == [k \in {} |-> 0]

\* datetime.now().strftime(...): a string no code of the program reads back
Now == "now"

SessionTypes == {"work", "short_break", "long_break"}

ConfigKeys == {"work_duration", "short_break", "long_break",
               "sessions_until_long_break"}

Minutes == 0..MaxMinutes

\* every mapping update_config may be handed: any subset of the keys
PartialConfigs == UNION {[S -> Minutes] : S \in SUBSET ConfigKeys}

----------------------------------------------------------------------------
(* BaseTimer / PomodoroTimer *)

\* PomodoroTimer.__init__
PomodoroTimer(work_duration, short_break, long_break) ==
    [kind |-> "Pomodoro",
     is_running |-> FALSE,
     total_sessions |-> 0,
     timer_config |-> [work_duration |-> work_duration,
                       short_break |-> short_break,
                       long_break |-> long_break,
                       sessions_until_long_break |-> DefaultSessionsUntilLongBreak],
     completed_sessions |-> <<>>,
     current_session_type |-> "work",
     sessions_completed |-> 0,
     remaining_time |-> work_duration * SecondsPerMinute]

\* dict.update
dict_update(d, new) ==
    [k \in (DOMAIN d) \cup (DOMAIN new) |->
        IF k \in DOMAIN new THEN new[k] ELSE d[k]]

\* update_config resetting remaining_time whether or not the timer runs
update_config_always_resets(t, new_config) ==
    IF "work_duration" \notin DOMAIN new_config
    THEN [ret |-> "KeyError", timer |-> t]
    ELSE IF new_config["work_duration"] <= 0
    THEN [ret |-> "False", timer |-> t]
    ELSE IF "short_break" \notin DOMAIN new_config
    THEN [ret |-> "KeyError", timer |-> t]
    ELSE IF new_config["short_break"] <= 0
    THEN [ret |-> "False", timer |-> t]
    ELSE LET cfg == dict_update(t.timer_config, new_config)
         IN  [ret |-> "True",
              timer |-> [t EXCEPT !.timer_config = cfg,
                                  !.remaining_time =
                                      cfg["work_duration"] * SecondsPerMinute]]

\* PomodoroTimer.update_config: the result and the timer afterwards
update_config(t, new_config) ==
    IF "work_duration" \notin DOMAIN new_config
    THEN [ret |-> "KeyError", timer |-> t]
    ELSE IF new_config["work_duration"] <= 0
    THEN [ret |-> "False", timer |-> t]
    ELSE IF "short_break" \notin DOMAIN new_config
    THEN [ret |-> "KeyError", timer |-> t]
    ELSE IF new_config["short_break"] <= 0
    THEN [ret |-> "False", timer |-> t]
    ELSE LET cfg == dict_update(t.timer_config, new_config)
             t1 == [t EXCEPT !.timer_config = cfg]
         IN  [ret |-> "True",
              timer |-> IF ~t1.is_running
                        THEN [t1 EXCEPT !.remaining_time =
                                  cfg["work_duration"] * SecondsPerMinute]
                        ELSE t1]

\* BaseTimer.set_running_state
set_running_state(t, state) == [t EXCEPT !.is_running = state]

\* PomodoroTimer.start_timer / RevisionTimer.start_timer
start_timer(t) == [t EXCEPT !.is_running = TRUE]

\* get_next_session_type with the constructor's period whatever is configured
get_next_session_type_default_period(t) ==
    IF t.current_session_type = "work"
    THEN IF (t.sessions_completed + 1) % DefaultSessionsUntilLongBreak = 0
         THEN "long_break"
         ELSE "short_break"
    ELSE "work"

\* get_next_session_type testing the counter itself, not the counter plus one
get_next_session_type_no_lookahead(t) ==
    IF t.current_session_type = "work"
    THEN IF t.timer_config["sessions_until_long_break"] = 0
         THEN "ZeroDivisionError"
         ELSE IF t.sessions_completed
                    % t.timer_config["sessions_until_long_break"] = 0
              THEN "long_break"
              ELSE "short_break"
    ELSE "work"

\* PomodoroTimer.get_next_session_type
get_next_session_type(t) ==
    IF t.current_session_type = "work"
    THEN IF t.timer_config["sessions_until_long_break"] = 0
         THEN "ZeroDivisionError"
         ELSE IF (t.sessions_completed + 1)
                    % t.timer_config["sessions_until_long_break"] = 0
              THEN "long_break"
              ELSE "short_break"
    ELSE "work"

\* _get_session_duration answering the work duration for every type
get_session_duration_work_only(t, session_type) ==
    t.timer_config["work_duration"]

\* PomodoroTimer._get_session_duration
get_session_duration(t, session_type) ==
    IF session_type = "work" THEN t.timer_config["work_duration"]
    ELSE IF session_type = "short_break" THEN t.timer_config["short_break"]
    ELSE IF session_type = "long_break" THEN t.timer_config["long_break"]
    ELSE t.timer_config["work_duration"]

\* complete_session numbering a break one past the work counter
complete_session_numbers_breaks(t) ==
    LET session_record ==
            [type |-> t.current_session_type,
             duration |-> get_session_duration(t, t.current_session_type),
             completed_at |-> Now,
             session_number |-> t.sessions_completed + 1]
        t1 == [t EXCEPT !.completed_sessions = Append(@, session_record)]
        t2 == IF t.current_session_type = "work"
              THEN [t1 EXCEPT !.sessions_completed = @ + 1,
                              !.total_sessions = @ + 1]
              ELSE t1
        next == get_next_session_type(t2)
    IN  IF next = "ZeroDivisionError"
        THEN [ret |-> "ZeroDivisionError", timer |-> t2]
        ELSE LET t3 == [t2 EXCEPT !.current_session_type = next]
             IN  [ret |-> "None",
                  timer |-> [t3 EXCEPT !.remaining_time =
                                get_session_duration(t3, next) * SecondsPerMinute]]

\* complete_session counting every session, breaks included
complete_session_counts_breaks(t) ==
    LET session_record ==
            [type |-> t.current_session_type,
             duration |-> get_session_duration(t, t.current_session_type),
             completed_at |-> Now,
             session_number |-> IF t.current_session_type = "work"
                                THEN t.sessions_completed + 1
                                ELSE t.sessions_completed]
        t2 == [t EXCEPT !.completed_sessions = Append(@, session_record),
                        !.sessions_completed = @ + 1,
                        !.total_sessions = @ + 1]
        next == get_next_session_type(t2)
    IN  IF next = "ZeroDivisionError"
        THEN [ret |-> "ZeroDivisionError", timer |-> t2]
        ELSE LET t3 == [t2 EXCEPT !.current_session_type = next]
             IN  [ret |-> "None",
                  timer |-> [t3 EXCEPT !.remaining_time =
                                get_session_duration(t3, next) * SecondsPerMinute]]

\* PomodoroTimer.complete_session: whether it raised, and the timer afterwards
complete_session(t) ==
    LET session_record ==
            [type |-> t.current_session_type,
             duration |-> get_session_duration(t, t.current_session_type),
             completed_at |-> Now,
             session_number |-> IF t.current_session_type = "work"
                                THEN t.sessions_completed + 1
                                ELSE t.sessions_completed]
        t1 == [t EXCEPT !.completed_sessions = Append(@, session_record)]
        t2 == IF t.current_session_type = "work"
              THEN [t1 EXCEPT !.sessions_completed = @ + 1,
                              !.total_sessions = @ + 1]
              ELSE t1
        next == get_next_session_type(t2)
    IN  IF next = "ZeroDivisionError"
        THEN [ret |-> "ZeroDivisionError", timer |-> t2]
        ELSE LET t3 == [t2 EXCEPT !.current_session_type = next]
             IN  [ret |-> "None",
                  timer |-> [t3 EXCEPT !.remaining_time =
                                get_session_duration(t3, next) * SecondsPerMinute]]

\* PomodoroTimer.get_current_session_info
get_current_session_info(t) ==
    <<t.current_session_type, t.remaining_time, t.sessions_completed>>

\* BaseTimer.get_total_sessions
get_total_sessions(t) == t.total_sessions

\* PomodoroTimer.get_timer_config
get_timer_config(t) == t.timer_config

\* the loop of get_statistics over the sessions from index i on: the work
\* sessions collected and the durations added up
RECURSIVE statistics_loop(_, _, _, _)
statistics_loop(sessions, i, work_sessions, total_time) ==
    IF i > Len(sessions)
    THEN [work_sessions |-> work_sessions, total_time |-> total_time]
    ELSE statistics_loop(sessions, i + 1,
                         IF sessions[i].type = "work"
                         THEN Append(work_sessions, sessions[i])
                         ELSE work_sessions,
                         total_time + sessions[i].duration)

\* get_statistics reporting the number of all records as total_sessions
get_statistics_counts_every_record(t) ==
    IF t.completed_sessions = <<>>
    THEN [total_sessions |-> 0, total_time |-> 0, completed_sessions |-> 0]
    ELSE LET r == statistics_loop(t.completed_sessions, 1, <<>>, 0)
         IN  [total_sessions |-> Len(t.completed_sessions),
              total_time |-> r.total_time,
              completed_sessions |-> Len(t.completed_sessions)]

\* get_statistics adding up the durations of the work sessions only
get_statistics_work_time(t) ==
    IF t.completed_sessions = <<>>
    THEN [total_sessions |-> 0, total_time |-> 0, completed_sessions |-> 0]
    ELSE LET r == statistics_loop(SelectSeq(t.completed_sessions,
                                            LAMBDA x : x.type = "work"),
                                  1, <<>>, 0)
         IN  [total_sessions |-> Len(r.work_sessions),
              total_time |-> r.total_time,
              completed_sessions |-> Len(t.completed_sessions)]

\* PomodoroTimer.get_statistics
get_statistics(t) ==
    IF t.completed_sessions = <<>>
    THEN [total_sessions |-> 0, total_time |-> 0, completed_sessions |-> 0]
    ELSE LET r == statistics_loop(t.completed_sessions, 1, <<>>, 0)
         IN  [total_sessions |-> Len(r.work_sessions),
              total_time |-> r.total_time,
              completed_sessions |-> Len(t.completed_sessions)]

----------------------------------------------------------------------------
(* StudyTimer and RevisionTimer *)

\* StudyTimer.__init__
StudyTimer(work_duration, short_break, long_break) ==
    dict_update(PomodoroTimer(work_duration, short_break, long_break),
                [kind |-> "Study",
                 daily_goal_minutes |-> DefaultDailyGoalMinutes,
                 study_notes |-> <<>>])

\* RevisionTimer.__init__
RevisionTimer(duration) ==
    [kind |-> "Revision",
     is_running |-> FALSE,
     duration |-> duration * SecondsPerMinute,
     remaining_time |-> duration * SecondsPerMinute,
     completed_sessions |-> <<>>,
     current_session_type |-> "revision",
     sessions_completed |-> 0,
     total_sessions |-> 0,
     timer_config |-> [duration |-> duration]]

\* isinstance(timer, PomodoroTimer): StudyTimer is a subclass
IsPomodoroTimer(t) == t.kind \in {"Pomodoro", "Study"}

\* RevisionTimer.get_timer_config
revision_get_timer_config(t) == [duration |-> t.duration \div SecondsPerMinute]

\* RevisionTimer.get_current_session_info
revision_get_current_session_info(t) ==
    <<"revision", t.remaining_time, t.total_sessions>>

\* update_config taking a duration of zero for a valid one
revision_update_config_accepts_zero(t, new_config) ==
    IF "duration" \in DOMAIN new_config /\ new_config["duration"] >= 0
    THEN LET t1 == [t EXCEPT !.duration =
                        new_config["duration"] * SecondsPerMinute]
         IN  [ret |-> "True",
              timer |-> IF ~t1.is_running
                        THEN [t1 EXCEPT !.remaining_time = t1.duration]
                        ELSE t1]
    ELSE [ret |-> "False", timer |-> t]

\* RevisionTimer.update_config: the result and the timer afterwards
revision_update_config(t, new_config) ==
    IF "duration" \in DOMAIN new_config /\ new_config["duration"] > 0
    THEN LET t1 == [t EXCEPT !.duration =
                        new_config["duration"] * SecondsPerMinute]
         IN  [ret |-> "True",
              timer |-> IF ~t1.is_running
                        THEN [t1 EXCEPT !.remaining_time = t1.duration]
                        ELSE t1]
    ELSE [ret |-> "False", timer |-> t]

\* complete_session leaving the total counter as it was
revision_complete_session_uncounted(t) ==
    LET session_record ==
            [type |-> "revision",
             duration |-> t.duration \div SecondsPerMinute,
             completed_at |-> Now,
             session_number |-> t.sessions_completed + 1]
    IN  [ret |-> "None",
         timer |-> [t EXCEPT !.completed_sessions = Append(@, session_record),
                             !.sessions_completed = @ + 1,
                             !.remaining_time = t.duration]]

\* RevisionTimer.complete_session
revision_complete_session(t) ==
    LET session_record ==
            [type |-> "revision",
             duration |-> t.duration \div SecondsPerMinute,
             completed_at |-> Now,
             session_number |-> t.sessions_completed + 1]
    IN  [ret |-> "None",
         timer |-> [t EXCEPT !.completed_sessions = Append(@, session_record),
                             !.sessions_completed = @ + 1,
                             !.total_sessions = @ + 1,
                             !.remaining_time = t.duration]]

\* timer.get_timer_config() as the timer's class resolves it
timer_get_timer_config(t) ==
    IF IsPomodoroTimer(t) THEN get_timer_config(t)
    ELSE revision_get_timer_config(t)

\* timer.complete_session() as the timer's class resolves it
timer_complete_session(t) ==
    IF IsPomodoroTimer(t) THEN complete_session(t)
    ELSE revision_complete_session(t)

----------------------------------------------------------------------------
(* DataManager *)

\* a file: whether it exists, whether its text parses as JSON, and the
\* value the text parses to
FileAbsent == [exists |-> FALSE, json |-> FALSE, value |-> EmptyMap]

\* a file whose text does not parse (a write cut short, a damaged file)
FileUnparsable == [exists |-> TRUE, json |-> FALSE, value |-> EmptyMap]

\* json.dump(data, file): the file that holds the text of data
json_dump(data) == [exists |-> TRUE, json |-> TRUE, value |-> data]

\* json.load(file): raises on text that does not parse
json_load(file) ==
    IF file.json THEN [raised |-> FALSE, value |-> file.value]
    ELSE [raised |-> TRUE, value |-> EmptyMap]

\* the return value None, and a returned mapping
NoneValue == [is_none |-> TRUE, data |-> EmptyMap]
Some(data) == [is_none |-> FALSE, data |-> data]

\* snapshot_data with getattr falling to its default, the empty list
snapshot_data_default_history(t) ==
    [timer_config |-> timer_get_timer_config(t),
     sessions_completed |-> get_total_sessions(t),
     completed_sessions |-> <<>>,
     last_saved |-> Now]

\* the dictionary save_timer_data builds from the timer
snapshot_data(t) ==
    LET data == [timer_config |-> timer_get_timer_config(t),
                 sessions_completed |-> get_total_sessions(t),
                 completed_sessions |-> t.completed_sessions,
                 last_saved |-> Now]
        notes == IF "study_notes" \in DOMAIN t
                 THEN [study_notes |-> t.study_notes] ELSE EmptyMap
        goal == IF "daily_goal_minutes" \in DOMAIN t
                THEN [daily_goal_minutes |-> t.daily_goal_minutes] ELSE EmptyMap
    IN  dict_update(dict_update(data, notes), goal)

\* what the file system may do to save_timer_data's backup copy and to its
\* write of the primary file
BackupOutcomes == {"ok", "fails", "cut_short"}
WriteOutcomes == {"ok", "open_fails", "cut_short"}
ReadOutcomes == {"ok", "fails"}

\* save_timer_data copying to the backup after it has written the primary
save_timer_data_backup_after_write(t, primary, backup, backup_io, write_io) ==
    LET data == snapshot_data(t)
        backup1 == IF primary.exists
                   THEN IF backup_io = "ok" THEN json_dump(data)
                        ELSE IF backup_io = "cut_short" THEN FileUnparsable
                        ELSE backup
                   ELSE backup
    IN  IF write_io = "ok"
        THEN [ret |-> "True", primary |-> json_dump(data), backup |-> backup1]
        ELSE IF write_io = "cut_short"
        THEN [ret |-> "False", primary |-> FileUnparsable, backup |-> backup1]
        ELSE [ret |-> "False", primary |-> primary, backup |-> backup1]

\* save_timer_data writing the primary file only when there is none yet
save_timer_data_keeps_existing(t, primary, backup, backup_io, write_io) ==
    IF primary.exists
    THEN [ret |-> "True", primary |-> primary, backup |-> backup]
    ELSE IF write_io = "ok"
    THEN [ret |-> "True", primary |-> json_dump(snapshot_data(t)),
          backup |-> backup]
    ELSE [ret |-> "False", primary |-> primary, backup |-> backup]

\* DataManager.save_timer_data: the result and both files afterwards
save_timer_data(t, primary, backup, backup_io, write_io) ==
    LET data == snapshot_data(t)
        backup1 == IF primary.exists
                   THEN IF backup_io = "ok" THEN primary
                        ELSE IF backup_io = "cut_short" THEN FileUnparsable
                        ELSE backup
                   ELSE backup
    IN  IF write_io = "ok"
        THEN [ret |-> "True", primary |-> json_dump(data), backup |-> backup1]
        ELSE IF write_io = "cut_short"
        THEN [ret |-> "False", primary |-> FileUnparsable, backup |-> backup1]
        ELSE [ret |-> "False", primary |-> primary, backup |-> backup1]

\* an exception that leaves a call: no return value
Raised(exception) == [is_none |-> FALSE, data |-> EmptyMap, raised |-> exception]

\* how a call of load_timer_data ended: what it returned, or what it raised
load_outcome(r) ==
    IF "raised" \in DOMAIN r THEN r.raised
    ELSE IF r.is_none THEN "None"
    ELSE "data"

\* _load_from_backup without its try/except
load_from_backup_unguarded(backup, backup_read) ==
    IF backup.exists
    THEN IF backup_read # "ok" THEN Raised("OSError")
         ELSE IF json_load(backup).raised THEN Raised("JSONDecodeError")
         ELSE Some(json_load(backup).value)
    ELSE NoneValue

\* _load_from_backup that reads the file and forgets to return its contents
load_from_backup_no_return(backup, backup_read) == NoneValue

\* DataManager._load_from_backup
load_from_backup(backup, backup_read) ==
    IF backup.exists
    THEN IF backup_read = "ok" /\ ~json_load(backup).raised
         THEN Some(json_load(backup).value)
         ELSE NoneValue
    ELSE NoneValue

RequiredKeys == {"timer_config", "sessions_completed", "completed_sessions"}

\* load_timer_data turning to the backup when the primary file is missing
load_timer_data_missing_falls_back(primary, backup, primary_read, backup_read) ==
    IF ~primary.exists \/ primary_read # "ok" \/ json_load(primary).raised
    THEN load_from_backup(backup, backup_read)
    ELSE IF \E key \in RequiredKeys : key \notin DOMAIN json_load(primary).value
    THEN NoneValue
    ELSE Some(json_load(primary).value)

\* DataManager.load_timer_data
load_timer_data(primary, backup, primary_read, backup_read) ==
    IF ~primary.exists
    THEN NoneValue
    ELSE IF primary_read # "ok" \/ json_load(primary).raised
    THEN load_from_backup(backup, backup_read)
    ELSE IF \E key \in RequiredKeys : key \notin DOMAIN json_load(primary).value
    THEN NoneValue
    ELSE Some(json_load(primary).value)

----------------------------------------------------------------------------
(* The parts of the state an operation on the timer alone leaves as built *)

\* a slot without a live thread, and no live thread at all; stop_requested
\* records that the active flag was cleared while the thread was in
\* time.sleep, until the thread's first step past the tests that follow
IdleThread == [pc |-> "idle", stop_requested |-> FALSE]
NoThreads == [i \in 1..MaxThreads |-> IdleThread]

\* the timer is not paused
NotPaused == [paused |-> FALSE, remaining_time |-> 0]

\* nothing queued with root.after
NoCallbacks == [handle_session_completion |-> 0, start_timer |-> 0]

NoIo == [backup_copy |-> "none", write |-> "none",
         primary_read |-> "none", backup_read |-> "none"]

NoOp == [name |-> "init", ret |-> "None"]

RestInit ==
    /\ is_timer_active = FALSE
    /\ timer_type_var = "Pomodoro"
    /\ threads = NoThreads
    /\ after_queue = NoCallbacks
    /\ signals = 0
    /\ pause_mark = NotPaused
    /\ primary_file = FileAbsent
    /\ backup_file = FileAbsent
    /\ loaded = NoneValue
    /\ io = NoIo
    /\ op = NoOp
    /\ call_arg = EmptyMap
    /\ stats = EmptyMap

----------------------------------------------------------------------------
(* The cycle: a fresh cyclic timer on which only complete_session is called *)

InitCycle ==
    /\ \E w \in 1..MaxMinutes, s \in 1..MaxMinutes, l \in 1..MaxMinutes :
          timer = PomodoroTimer(w, s, l)
    /\ RestInit

CompleteSession ==
    /\ Len(timer.completed_sessions) < MaxCycle
    /\ LET r == complete_session(timer)
       IN  /\ timer' = r.timer
           /\ op' = [name |-> "complete_session", ret |-> r.ret]
    /\ UNCHANGED <<appVars, diskVars, call_arg, stats>>

NextCycle == CompleteSession

SpecCycle == InitCycle /\ [][NextCycle]_vars

\* the session type entered after the i-th completed work session of a run
\* that alternates work and break: the type of the record after it, or the
\* current type while that break has not been completed yet
BreakAfter(i) ==
    IF Len(timer.completed_sessions) >= 2 * i
    THEN timer.completed_sessions[2 * i].type
    ELSE timer.current_session_type

\* C1: on a fresh cyclic timer with sessions_until_long_break = 4 the breaks
\* entered after work sessions 1, 2, 3 and 4 are short_break, short_break,
\* short_break and long_break: the long break follows work session 4.
C1_LongBreakAfterFourth ==
    \A i \in 1..4 :
        Len(timer.completed_sessions) >= 2 * i - 1
            => BreakAfter(i) = IF i = 4 THEN "long_break" ELSE "short_break"

----------------------------------------------------------------------------
(* The timer model alone: every call of the cyclic timer's interface *)

InitTimer ==
    /\ \E w \in 1..MaxMinutes, s \in 1..MaxMinutes, l \in 1..MaxMinutes :
          timer = PomodoroTimer(w, s, l)
    /\ RestInit

TimerStart ==
    /\ timer' = start_timer(timer)
    /\ op' = [name |-> "start_timer", ret |-> "None"]
    /\ UNCHANGED <<appVars, diskVars, call_arg, stats>>

TimerStop ==
    /\ timer' = set_running_state(timer, FALSE)
    /\ op' = [name |-> "set_running_state", ret |-> "None"]
    /\ UNCHANGED <<appVars, diskVars, call_arg, stats>>

TimerUpdateConfig ==
    /\ \E new_config \in PartialConfigs :
          LET r == update_config(timer, new_config)
          IN  /\ timer' = r.timer
              /\ op' = [name |-> "update_config", ret |-> r.ret]
    /\ UNCHANGED <<appVars, diskVars, call_arg, stats>>

TimerCompleteSession ==
    /\ Len(timer.completed_sessions) < MaxRecords
    /\ LET r == complete_session(timer)
       IN  /\ timer' = r.timer
           /\ op' = [name |-> "complete_session", ret |-> r.ret]
    /\ UNCHANGED <<appVars, diskVars, call_arg, stats>>

TimerGetNextSessionType ==
    /\ op' = [name |-> "get_next_session_type",
              ret |-> get_next_session_type(timer)]
    /\ UNCHANGED <<timer, appVars, diskVars, call_arg, stats>>

NextTimer ==
    \/ TimerStart
    \/ TimerStop
    \/ TimerUpdateConfig
    \/ TimerCompleteSession
    \/ TimerGetNextSessionType

SpecTimer == InitTimer /\ [][NextTimer]_vars

\* C5: in every reachable state 0 <= remaining_time <=
\* session_duration(current_session_type) * 60, the duration looked up in
\* the current configuration.
C5_RemainingWithinSession ==
    /\ 0 <= timer.remaining_time
    /\ timer.remaining_time
          <= get_session_duration(timer, timer.current_session_type)
                * SecondsPerMinute

----------------------------------------------------------------------------
(* update_config with its argument on record: a fresh cyclic timer, started *)
(* and stopped at will, handed every mapping                                *)

UpdateConfigCall ==
    /\ \E new_config \in PartialConfigs :
          LET r == update_config(timer, new_config)
          IN  /\ timer' = r.timer
              /\ op' = [name |-> "update_config", ret |-> r.ret]
              /\ call_arg' = new_config
    /\ UNCHANGED <<appVars, diskVars, stats>>

NextConfig ==
    \/ TimerStart
    \/ TimerStop
    \/ UpdateConfigCall

SpecConfig == InitTimer /\ [][NextConfig]_vars

\* C6: update_config never raises and allows partial updates: whatever keys
\* the mapping supplies, the call returns success or failure, and on success
\* the configuration is the old one with exactly the supplied keys replaced.
C6_PartialUpdateNeverRaises ==
    [][op'.name = "update_config"
          => /\ op'.ret \in {"True", "False"}
             /\ op'.ret = "True"
                   => /\ DOMAIN timer'.timer_config = DOMAIN timer.timer_config
                      /\ \A k \in DOMAIN timer.timer_config :
                            timer'.timer_config[k] =
                                IF k \in DOMAIN call_arg' THEN call_arg'[k]
                                ELSE timer.timer_config[k]]_vars

\* a mapping that supplies a work_duration <= 0 or a short_break <= 0
NonPositiveDuration(new_config) ==
    \/ "work_duration" \in DOMAIN new_config /\ new_config["work_duration"] <= 0
    \/ "short_break" \in DOMAIN new_config /\ new_config["short_break"] <= 0

\* C7: in any state, update_config with a work_duration <= 0 or a
\* short_break <= 0 reports failure and leaves the configuration and
\* remaining_time unchanged.
C7_NonPositiveRejected ==
    [][op'.name = "update_config" /\ NonPositiveDuration(call_arg')
          => /\ op'.ret = "False"
             /\ timer'.timer_config = timer.timer_config
             /\ timer'.remaining_time = timer.remaining_time]_vars

----------------------------------------------------------------------------
(* The persistence manager: a timer of any class, its history growing, *)
(* saved to and loaded from files in every condition                   *)

\* the files a run may find: none, one that does not parse, the snapshot of
\* a fresh default-style timer, and that snapshot with a required key missing
FoundFiles ==
    {FileAbsent, FileUnparsable, json_dump(snapshot_data(PomodoroTimer(1, 1, 1)))}
    \cup {json_dump([k \in (DOMAIN snapshot_data(PomodoroTimer(1, 1, 1))) \ {key}
                        |-> snapshot_data(PomodoroTimer(1, 1, 1))[k]])
             : key \in RequiredKeys}

FreshTimers ==
    {PomodoroTimer(w, s, l) : w \in 1..MaxMinutes, s \in 1..MaxMinutes, l \in 1..MaxMinutes}
    \cup {StudyTimer(w, s, l) : w \in 1..MaxMinutes, s \in 1..MaxMinutes, l \in 1..MaxMinutes}
    \cup {RevisionTimer(d) : d \in 1..MaxMinutes}

InitStore ==
    /\ timer \in FreshTimers
    /\ primary_file \in FoundFiles
    /\ backup_file \in FoundFiles
    /\ is_timer_active = FALSE
    /\ timer_type_var = "Pomodoro"
    /\ threads = NoThreads
    /\ after_queue = NoCallbacks
    /\ signals = 0
    /\ pause_mark = NotPaused
    /\ loaded = NoneValue
    /\ io = NoIo
    /\ op = NoOp
    /\ call_arg = EmptyMap
    /\ stats = EmptyMap

StoreSave ==
    /\ \E backup_io \in BackupOutcomes, write_io \in WriteOutcomes :
          LET r == save_timer_data(timer, primary_file, backup_file,
                                   backup_io, write_io)
          IN  /\ primary_file' = r.primary
              /\ backup_file' = r.backup
              /\ op' = [name |-> "save_timer_data", ret |-> r.ret]
              /\ io' = [NoIo EXCEPT !.backup_copy =
                                        IF primary_file.exists THEN backup_io
                                        ELSE "none",
                                    !.write = write_io]
    /\ UNCHANGED <<timer, appVars, loaded, call_arg, stats>>

StoreLoad ==
    /\ \E primary_read \in ReadOutcomes, backup_read \in ReadOutcomes :
          LET r == load_timer_data(primary_file, backup_file,
                                   primary_read, backup_read)
          IN  /\ loaded' = r
              /\ op' = [name |-> "load_timer_data",
                        ret |-> load_outcome(r)]
              /\ io' = [NoIo EXCEPT !.primary_read = primary_read,
                                    !.backup_read = backup_read]
    /\ UNCHANGED <<timer, appVars, primary_file, backup_file, call_arg, stats>>

StoreCompleteSession ==
    /\ Len(timer.completed_sessions) < MaxRecords
    /\ LET r == timer_complete_session(timer)
       IN  /\ timer' = r.timer
           /\ op' = [name |-> "complete_session", ret |-> r.ret]
    /\ UNCHANGED <<appVars, diskVars, call_arg, stats>>

NextStore ==
    \/ StoreSave
    \/ StoreLoad
    \/ StoreCompleteSession

SpecStore == InitStore /\ [][NextStore]_vars

\* the primary file parses and lacks one of the three required keys
PrimaryLacksKey ==
    /\ primary_file.exists
    /\ primary_file.json
    /\ \E key \in RequiredKeys : key \notin DOMAIN primary_file.value

\* the backup file is there, could be read by the last load, and parses
BackupLoadable ==
    /\ backup_file.exists
    /\ backup_file.json
    /\ io.backup_read = "ok"

\* C8: when the primary store exists and parses but lacks a required key,
\* load falls back to the backup: it returns the backup's contents when the
\* backup is loadable and the absent value only when the backup fails too.
C8_MissingKeyFallsBack ==
    op.name = "load_timer_data" /\ io.primary_read = "ok" /\ PrimaryLacksKey
        => loaded = IF BackupLoadable THEN Some(backup_file.value)
                    ELSE NoneValue

\* C9: when the primary store exists but does not parse and a valid backup
\* exists, load returns exactly the backup's contents.
C9_UnparsableLoadsBackup ==
    /\ op.name = "load_timer_data"
    /\ primary_file.exists
    /\ ~primary_file.json
    /\ BackupLoadable
    => loaded = Some(backup_file.value)

C9_Witness ==
    /\ op.name = "load_timer_data"
    /\ primary_file = FileUnparsable
    /\ BackupLoadable
    /\ RequiredKeys \subseteq DOMAIN backup_file.value
    /\ Len(backup_file.value["completed_sessions"]) > 0
    /\ ~loaded.is_none
    /\ loaded.data = backup_file.value

\* C10: a successful save followed immediately by a load returns a snapshot
\* whose completed_sessions are the timer's N records, field by field and in
\* order, whose timer_config is the timer's configuration and whose
\* sessions_completed is the timer's total session count.
C10_SaveLoadRoundTrip ==
    [][/\ op.name = "save_timer_data"
       /\ op.ret = "True"
       /\ op'.name = "load_timer_data"
       /\ io'.primary_read = "ok"
       => /\ ~loaded'.is_none
          /\ Len(loaded'.data["completed_sessions"]) = Len(timer.completed_sessions)
          /\ \A n \in 1..Len(timer.completed_sessions) :
                loaded'.data["completed_sessions"][n] = timer.completed_sessions[n]
          /\ loaded'.data["timer_config"] = timer_get_timer_config(timer)
          /\ loaded'.data["sessions_completed"] = get_total_sessions(timer)]_vars

C10_Witness ==
    /\ op.name = "load_timer_data"
    /\ io.primary_read = "ok"
    /\ Len(timer.completed_sessions) = MaxRecords
    /\ primary_file = json_dump(snapshot_data(timer))
    /\ ~loaded.is_none
    /\ loaded.data["completed_sessions"] = timer.completed_sessions

----------------------------------------------------------------------------
(* PomodoroApplication: the presentation thread's handlers and the threads *)
(* running timer_countdown.  A handler runs as one step; a thread takes    *)
(* one step per read or write of shared state.  The file system does not   *)
(* fail in these runs, and the widgets (labels, buttons, message boxes)    *)
(* hold no state the timer or the driver reads.                            *)

LiveThreads == {i \in 1..MaxThreads : threads[i].pc # "idle"}

\* completion signals sent since remaining_time was last above zero
CountSignals(remaining_after, sent) ==
    IF remaining_after > 0 THEN 0
    ELSE IF signals + sent > MaxPending THEN MaxPending
    ELSE signals + sent

InitApp ==
    /\ \E w \in 1..AppMinutes, s \in 1..AppMinutes, l \in 1..AppMinutes :
          timer = StudyTimer(w, s, l)
    /\ RestInit

\* PomodoroApplication.start_timer, from the button or from the callback
\* handle_session_completion queued
start_timer_handler ==
    IF ~is_timer_active
    THEN \E i \in 1..MaxThreads :
            /\ threads[i].pc = "idle"
            /\ \A j \in 1..(i - 1) : threads[j].pc # "idle"
            /\ is_timer_active' = TRUE
            /\ timer' = start_timer(timer)
            /\ threads' = [threads EXCEPT ![i] = [pc |-> "while",
                                                  stop_requested |-> FALSE]]
            /\ pause_mark' = NotPaused
    ELSE UNCHANGED <<is_timer_active, timer, threads, pause_mark>>

AppStart ==
    /\ ~is_timer_active
    /\ start_timer_handler
    /\ UNCHANGED <<timer_type_var, after_queue, signals, diskVars, op, call_arg, stats>>

AppDelayedStart ==
    /\ after_queue["start_timer"] > 0
    /\ start_timer_handler
    /\ after_queue' = [after_queue EXCEPT !["start_timer"] = @ - 1]
    /\ UNCHANGED <<timer_type_var, signals, diskVars, op, call_arg, stats>>

\* the threads once the active flag has gone from true to false: those in
\* time.sleep have been asked to stop
flag_cleared(ths) ==
    [i \in DOMAIN ths |->
        IF ths[i].pc = "sleep" THEN [ths[i] EXCEPT !.stop_requested = TRUE]
        ELSE ths[i]]

\* PomodoroApplication.pause_timer
AppPause ==
    /\ is_timer_active
    /\ is_timer_active' = FALSE
    /\ timer' = set_running_state(timer, FALSE)
    /\ threads' = flag_cleared(threads)
    /\ pause_mark' = [paused |-> TRUE, remaining_time |-> timer.remaining_time]
    /\ UNCHANGED <<timer_type_var, after_queue, signals, diskVars, op, call_arg,
                   stats>>

\* reset_timer leaving the current session type as it is
reset_timer_keeps_session_type(t) ==
    IF IsPomodoroTimer(t)
    THEN [set_running_state(t, FALSE) EXCEPT
             !.remaining_time = t.timer_config["work_duration"] * SecondsPerMinute]
    ELSE [set_running_state(t, FALSE) EXCEPT !.remaining_time = t.duration]

\* reset_timer emptying the history as well
reset_timer_clears_history(t) ==
    IF IsPomodoroTimer(t)
    THEN [set_running_state(t, FALSE) EXCEPT
             !.current_session_type = "work",
             !.completed_sessions = <<>>,
             !.remaining_time = t.timer_config["work_duration"] * SecondsPerMinute]
    ELSE [set_running_state(t, FALSE) EXCEPT !.completed_sessions = <<>>,
                                             !.remaining_time = t.duration]

\* the timer reset_timer leaves
reset_timer(t) ==
    IF IsPomodoroTimer(t)
    THEN [set_running_state(t, FALSE) EXCEPT
             !.current_session_type = "work",
             !.remaining_time = t.timer_config["work_duration"] * SecondsPerMinute]
    ELSE [set_running_state(t, FALSE) EXCEPT !.remaining_time = t.duration]

\* PomodoroApplication.reset_timer
AppReset ==
    /\ is_timer_active' = FALSE
    /\ timer' = reset_timer(timer)
    /\ signals' = CountSignals(timer'.remaining_time, 0)
    /\ threads' = IF is_timer_active THEN flag_cleared(threads) ELSE threads
    /\ pause_mark' = NotPaused
    /\ UNCHANGED <<timer_type_var, after_queue, diskVars, op, call_arg, stats>>

\* PomodoroApplication.handle_session_completion, run by the main loop
HandleSessionCompletion ==
    /\ after_queue["handle_session_completion"] > 0
    /\ Len(timer.completed_sessions) < MaxRecords
    /\ LET r == timer_complete_session(timer)
           t1 == set_running_state(r.timer, FALSE)
       IN  IF r.ret # "None"
           THEN /\ timer' = r.timer
                /\ after_queue' =
                      [after_queue EXCEPT !["handle_session_completion"] = @ - 1]
                /\ signals' = CountSignals(timer'.remaining_time, 0)
                /\ UNCHANGED <<is_timer_active, primary_file, backup_file, io>>
           ELSE /\ timer' = t1
                /\ is_timer_active' = FALSE
                /\ signals' = CountSignals(timer'.remaining_time, 0)
                /\ \E result \in BOOLEAN :
                      /\ result => after_queue["start_timer"] < MaxPending
                      /\ after_queue' =
                           [after_queue EXCEPT
                               !["handle_session_completion"] = @ - 1,
                               !["start_timer"] = IF result THEN @ + 1 ELSE @]
                /\ IF timer_type_var = "Revision"
                   THEN UNCHANGED <<primary_file, backup_file, io>>
                   ELSE LET saved == save_timer_data(t1, primary_file, backup_file,
                                                    "ok", "ok")
                        IN  /\ primary_file' = saved.primary
                            /\ backup_file' = saved.backup
                            /\ io' = [NoIo EXCEPT
                                        !.backup_copy = IF primary_file.exists
                                                        THEN "ok" ELSE "none",
                                        !.write = "ok"]
    /\ pause_mark' = NotPaused
    /\ UNCHANGED <<timer_type_var, threads, loaded, op, call_arg, stats>>

\* save_settings of the settings dialog, its entries holding valid numbers:
\* for a cyclic timer update_config with the three durations and
\* sessions_until_long_break = 4, then save_timer_data whatever the timer
\* type selected; for a revision timer update_config with the duration alone
AppSaveSettings ==
    /\ IF IsPomodoroTimer(timer)
       THEN \E w \in 1..AppMinutes, s \in 1..AppMinutes, l \in 1..AppMinutes :
               LET r == update_config(timer,
                            [work_duration |-> w, short_break |-> s,
                             long_break |-> l,
                             sessions_until_long_break |->
                                 DefaultSessionsUntilLongBreak])
                   saved == save_timer_data(r.timer, primary_file, backup_file,
                                            "ok", "ok")
               IN  /\ timer' = r.timer
                   /\ primary_file' = saved.primary
                   /\ backup_file' = saved.backup
                   /\ io' = [NoIo EXCEPT
                               !.backup_copy = IF primary_file.exists
                                               THEN "ok" ELSE "none",
                               !.write = "ok"]
       ELSE /\ \E duration \in 1..AppMinutes :
                  timer' = revision_update_config(timer,
                               [duration |-> duration]).timer
            /\ UNCHANGED <<primary_file, backup_file, io>>
    /\ signals' = CountSignals(timer'.remaining_time, 0)
    /\ pause_mark' = IF timer.is_running THEN pause_mark ELSE NotPaused
    /\ UNCHANGED <<is_timer_active, timer_type_var, threads, after_queue, loaded,
                   op, call_arg, stats>>

(* timer_countdown, one step per statement that reads or writes is_timer_active *)
(* or remaining_time; the decrement itself is one step                         *)

DriverFrame == <<is_timer_active, timer_type_var, pause_mark, diskVars, op, call_arg, stats>>

\* while self.is_timer_active ...
DriverWhileActive(i) ==
    /\ threads[i].pc = "while"
    /\ threads' = [threads EXCEPT ![i].pc =
                      IF is_timer_active THEN "while_time" ELSE "final"]
    /\ UNCHANGED <<timer, after_queue, signals, DriverFrame>>

\* ... and self.timer._remaining_time > 0
DriverWhileTime(i) ==
    /\ threads[i].pc = "while_time"
    /\ threads' = [threads EXCEPT ![i] =
                      [pc |-> IF timer.remaining_time > 0 THEN "sleep"
                              ELSE "final",
                       stop_requested |-> FALSE]]
    /\ UNCHANGED <<timer, after_queue, signals, DriverFrame>>

\* time.sleep(1) returns; if self.is_timer_active
DriverWake(i) ==
    /\ threads[i].pc = "sleep"
    /\ threads' = [threads EXCEPT ![i].pc =
                      IF is_timer_active THEN "decrement" ELSE "while"]
    /\ UNCHANGED <<timer, after_queue, signals, DriverFrame>>

\* the decrement step without its write to remaining_time
DriverDecrement_without_write(i) ==
    /\ threads[i].pc = "decrement"
    /\ threads' = [threads EXCEPT ![i] = [pc |-> "while",
                                          stop_requested |-> FALSE]]
    /\ UNCHANGED <<timer, signals, after_queue, DriverFrame>>

\* self.timer._remaining_time -= 1, then root.after(0, update_timer_display),
\* which changes the time label only
DriverDecrement(i) ==
    /\ threads[i].pc = "decrement"
    /\ timer' = [timer EXCEPT !.remaining_time = @ - 1]
    /\ threads' = [threads EXCEPT ![i] = [pc |-> "while",
                                          stop_requested |-> FALSE]]
    /\ signals' = CountSignals(timer'.remaining_time, 0)
    /\ UNCHANGED <<after_queue, DriverFrame>>

\* if self.is_timer_active ...
DriverFinalActive(i) ==
    /\ threads[i].pc = "final"
    /\ threads' = IF is_timer_active
                  THEN [threads EXCEPT ![i].pc = "final_time"]
                  ELSE [threads EXCEPT ![i] = IdleThread]
    /\ UNCHANGED <<timer, after_queue, signals, DriverFrame>>

\* ... and self.timer._remaining_time <= 0: root.after(0, handle_session_completion)
DriverFinalTime(i) ==
    /\ threads[i].pc = "final_time"
    /\ IF timer.remaining_time <= 0
       THEN /\ after_queue["handle_session_completion"] < MaxPending
            /\ after_queue' =
                  [after_queue EXCEPT !["handle_session_completion"] = @ + 1]
            /\ signals' = CountSignals(timer.remaining_time, 1)
       ELSE UNCHANGED <<after_queue, signals>>
    /\ threads' = [threads EXCEPT ![i] = IdleThread]
    /\ UNCHANGED <<timer, DriverFrame>>

timer_countdown(i) ==
    \/ DriverWhileActive(i)
    \/ DriverWhileTime(i)
    \/ DriverWake(i)
    \/ DriverDecrement(i)
    \/ DriverFinalActive(i)
    \/ DriverFinalTime(i)

NextApp ==
    \/ AppStart
    \/ AppDelayedStart
    \/ AppPause
    \/ AppReset
    \/ AppSaveSettings
    \/ HandleSessionCompletion
    \/ \E i \in 1..MaxThreads : timer_countdown(i)

SpecApp == InitApp /\ [][NextApp]_vars

\* C2: each countdown of remaining_time to zero signals the session-complete
\* event exactly once: handle_session_completion is queued at most once while
\* remaining_time stays at zero, so one countdown gives one complete_session
\* call and one record.
C2_CompletionSignalledOnce == signals <= 1

\* C3: at most one thread executing timer_countdown is alive at any time.
C3_SingleDriver == Cardinality(LiveThreads) <= 1

\* C4: from the moment pause_timer clears the active flag until the next
\* start, remaining_time keeps the value it had at the pause.
C4_PauseKeepsRemaining ==
    pause_mark.paused => timer.remaining_time = pause_mark.remaining_time

----------------------------------------------------------------------------
(* The configuration after any sequence of update_config calls *)

\* C11: after any sequence of successful and failed update_config calls on a
\* timer built by the constructor, every duration of the configuration is
\* > 0 and sessions_until_long_break >= 1.
C11_ConfigValuesPositive ==
    /\ timer.timer_config["work_duration"] > 0
    /\ timer.timer_config["short_break"] > 0
    /\ timer.timer_config["long_break"] > 0
    /\ timer.timer_config["sessions_until_long_break"] >= 1

----------------------------------------------------------------------------
(* Statistics: a cyclic timer whose history grows while the settings dialog *)
(* changes the durations, asked for its statistics at any point             *)

\* the mappings save_settings hands to update_config: three validated
\* durations and the fixed sessions_until_long_break
SettingsConfigs ==
    {[work_duration |-> w, short_break |-> s, long_break |-> l,
      sessions_until_long_break |-> DefaultSessionsUntilLongBreak] :
        w \in 1..MaxMinutes, s \in 1..MaxMinutes, l \in 1..MaxMinutes}

SettingsUpdateConfig ==
    /\ \E new_config \in SettingsConfigs :
          LET r == update_config(timer, new_config)
          IN  /\ timer' = r.timer
              /\ op' = [name |-> "update_config", ret |-> r.ret]
    /\ UNCHANGED <<appVars, diskVars, call_arg, stats>>

TimerGetStatistics ==
    /\ stats' = get_statistics(timer)
    /\ op' = [name |-> "get_statistics", ret |-> "dict"]
    /\ UNCHANGED <<timer, appVars, diskVars, call_arg>>

StatsCompleteSession ==
    /\ Len(timer.completed_sessions) < MaxHistory
    /\ LET r == complete_session(timer)
       IN  /\ timer' = r.timer
           /\ op' = [name |-> "complete_session", ret |-> r.ret]
    /\ UNCHANGED <<appVars, diskVars, call_arg, stats>>

NextStats ==
    \/ SettingsUpdateConfig
    \/ StatsCompleteSession
    \/ TimerGetStatistics

SpecStats == InitTimer /\ [][NextStats]_vars

\* the durations of the records added up, last record first
RECURSIVE DurationSum(_)
DurationSum(sessions) ==
    IF sessions = <<>> THEN 0
    ELSE sessions[Len(sessions)].duration
            + DurationSum(SubSeq(sessions, 1, Len(sessions) - 1))

\* C19: get_statistics returns total_sessions = the number of records of type
\* work, total_time = the sum of the durations of all records, and
\* completed_sessions = the number of records; all three are zero for an
\* empty history.
C19_Statistics ==
    op.name = "get_statistics"
        => LET sessions == timer.completed_sessions
           IN  /\ stats["total_sessions"] =
                      Cardinality({i \in DOMAIN sessions :
                                      sessions[i].type = "work"})
               /\ stats["total_time"] = DurationSum(sessions)
               /\ stats["completed_sessions"] = Len(sessions)
               /\ sessions = <<>>
                     => stats = [total_sessions |-> 0, total_time |-> 0,
                                 completed_sessions |-> 0]

\* statistics taken of a history holding work, short_break and long_break
\* records
C19_Witness ==
    /\ op.name = "get_statistics"
    /\ \A ty \in SessionTypes :
          \E i \in DOMAIN timer.completed_sessions :
              timer.completed_sessions[i].type = ty
    /\ stats["total_sessions"] < stats["completed_sessions"]
    /\ stats["total_time"] > stats["completed_sessions"]

----------------------------------------------------------------------------
(* complete_session, get_next_session_type and update_config of the cyclic *)
(* timer, step by step, in the runs of SpecTimer                           *)

\* the configuration key that holds the duration of a session type
DurationKey(session_type) ==
    IF session_type = "work" THEN "work_duration" ELSE session_type

\* C12: complete_session called while the current session type is
\* short_break or long_break leaves sessions_completed and total_sessions
\* unchanged; called while it is work, it changes both.
C12_BreakLeavesCounters ==
    [][op'.name = "complete_session"
          => IF timer.current_session_type \in {"short_break", "long_break"}
             THEN /\ timer'.sessions_completed = timer.sessions_completed
                  /\ timer'.total_sessions = timer.total_sessions
             ELSE /\ timer'.sessions_completed # timer.sessions_completed
                  /\ timer'.total_sessions # timer.total_sessions]_vars

\* a break session has just been completed after a counted work session
C12_Witness ==
    /\ op.name = "complete_session"
    /\ timer.completed_sessions # <<>>
    /\ timer.completed_sessions[Len(timer.completed_sessions)].type
          \in {"short_break", "long_break"}
    /\ timer.sessions_completed = 1
    /\ timer.total_sessions = 1

\* C13: complete_session appends exactly one record: its type is the
\* finished session type, its duration the configured duration of that type
\* at the call, its session_number the work counter plus one for a work
\* session and the unchanged work counter otherwise; the work counter and the
\* total counter grow by exactly one for a work session and not otherwise.
C13_CompleteSessionRecord ==
    [][op'.name = "complete_session"
          => LET finished == timer.current_session_type
                 counted == IF finished = "work" THEN 1 ELSE 0
             IN  /\ timer'.completed_sessions =
                        Append(timer.completed_sessions,
                               [type |-> finished,
                                duration |->
                                    timer.timer_config[DurationKey(finished)],
                                completed_at |-> Now,
                                session_number |->
                                    timer.sessions_completed + counted])
                 /\ timer'.sessions_completed =
                        timer.sessions_completed + counted
                 /\ timer'.total_sessions = timer.total_sessions + counted]_vars

\* a break has been recorded with a duration that is not the work duration
\* and with the session number of the work session before it
C13_Witness ==
    /\ op.name = "complete_session"
    /\ Len(timer.completed_sessions) = 2
    /\ timer.completed_sessions[1].type = "work"
    /\ timer.completed_sessions[2].type \in {"short_break", "long_break"}
    /\ timer.completed_sessions[2].duration # timer.timer_config["work_duration"]
    /\ timer.completed_sessions[2].session_number = 1
    /\ timer.completed_sessions[1].session_number = 1

\* C14: get_next_session_type changes nothing, and with
\* sessions_until_long_break = N >= 1 it returns long_break when the current
\* type is work and (sessions_completed + 1) mod N = 0, short_break when the
\* current type is work otherwise, and work when the current type is a break.
C14_NextSessionType ==
    [][op'.name = "get_next_session_type"
          => /\ timer' = timer
             /\ LET N == timer.timer_config["sessions_until_long_break"]
                IN  N >= 1
                      => op'.ret =
                           IF timer.current_session_type = "work"
                           THEN IF (timer.sessions_completed + 1) % N = 0
                                THEN "long_break"
                                ELSE "short_break"
                           ELSE "work"]_vars

\* a long break announced for a timer that has completed work sessions and
\* whose counter is not a multiple of N
C14_Witness ==
    /\ op.name = "get_next_session_type"
    /\ op.ret = "long_break"
    /\ timer.sessions_completed >= 1
    /\ timer.timer_config["sessions_until_long_break"] > 1

\* C15: immediately after complete_session, remaining_time is the configured
\* duration of the new current session type times 60.
C15_CompleteResetsRemaining ==
    op.name = "complete_session"
        => timer.remaining_time =
              timer.timer_config[DurationKey(timer.current_session_type)]
                 * SecondsPerMinute

\* C16: a successful update_config leaves remaining_time unchanged on a
\* running timer and sets it to the new work_duration times 60 on a timer
\* that is not running; it changes neither current_session_type nor the
\* counters nor the history.
C16_UpdateConfigFrame ==
    [][op'.name = "update_config" /\ op'.ret = "True"
          => /\ timer'.remaining_time =
                    IF timer.is_running THEN timer.remaining_time
                    ELSE timer'.timer_config["work_duration"] * SecondsPerMinute
             /\ timer'.current_session_type = timer.current_session_type
             /\ timer'.sessions_completed = timer.sessions_completed
             /\ timer'.total_sessions = timer.total_sessions
             /\ timer'.completed_sessions = timer.completed_sessions]_vars

\* a running timer, past its first session, whose configuration has just
\* been replaced while remaining_time stayed off the new work duration
C16_Witness ==
    /\ op.name = "update_config"
    /\ op.ret = "True"
    /\ timer.is_running
    /\ timer.completed_sessions # <<>>
    /\ timer.remaining_time
          # timer.timer_config["work_duration"] * SecondsPerMinute

----------------------------------------------------------------------------
(* The revision timer alone: every call of its interface *)

\* every mapping the revision timer's update_config may be handed: with or
\* without the duration key, with or without a key it does not read
RevisionConfigs ==
    UNION {[S -> Minutes] : S \in SUBSET {"duration", "work_duration"}}

InitRevision ==
    /\ \E duration \in (1..MaxMinutes) \cup {DefaultRevisionMinutes} :
          timer = RevisionTimer(duration)
    /\ RestInit

RevisionUpdateConfig ==
    /\ \E new_config \in RevisionConfigs :
          LET r == revision_update_config(timer, new_config)
          IN  /\ timer' = r.timer
              /\ op' = [name |-> "update_config", ret |-> r.ret]
              /\ call_arg' = new_config
    /\ UNCHANGED <<appVars, diskVars, stats>>

RevisionCompleteSession ==
    /\ Len(timer.completed_sessions) < MaxRecords
    /\ LET r == revision_complete_session(timer)
       IN  /\ timer' = r.timer
           /\ op' = [name |-> "complete_session", ret |-> r.ret]
    /\ UNCHANGED <<appVars, diskVars, call_arg, stats>>

NextRevision ==
    \/ TimerStart
    \/ TimerStop
    \/ RevisionUpdateConfig
    \/ RevisionCompleteSession

SpecRevision == InitRevision /\ [][NextRevision]_vars

\* C17: the revision timer's complete_session increments sessions_completed
\* and total_sessions by exactly one, appends exactly one record of type
\* revision with the configured duration, and resets remaining_time to the
\* configured duration; for duration = 60, start then complete_session makes
\* get_current_session_info return ("revision", 3600, 1).
C17_RevisionCompleteSession ==
    [][op'.name = "complete_session"
          => LET n == Len(timer.completed_sessions)
                 minutes == revision_get_timer_config(timer)["duration"]
             IN  /\ timer'.sessions_completed = timer.sessions_completed + 1
                 /\ timer'.total_sessions = timer.total_sessions + 1
                 /\ Len(timer'.completed_sessions) = n + 1
                 /\ SubSeq(timer'.completed_sessions, 1, n)
                        = timer.completed_sessions
                 /\ timer'.completed_sessions[n + 1].type = "revision"
                 /\ timer'.completed_sessions[n + 1].duration = minutes
                 /\ timer'.remaining_time = minutes * SecondsPerMinute
                 /\ timer = start_timer(RevisionTimer(60))
                       => revision_get_current_session_info(timer')
                             = <<"revision", 3600, 1>>]_vars

\* the example: the first session of a started 60-minute revision timer has
\* been completed
C17_Witness ==
    /\ op.name = "complete_session"
    /\ timer.is_running
    /\ timer.duration = 60 * SecondsPerMinute
    /\ Len(timer.completed_sessions) = 1
    /\ timer.completed_sessions[1].duration = 60
    /\ revision_get_current_session_info(timer) = <<"revision", 3600, 1>>

\* C18: the revision timer's update_config returns failure and leaves the
\* duration and remaining_time unchanged when the mapping has no duration key
\* or a duration <= 0; with a duration > 0 it returns success,
\* get_timer_config then returns that duration, and remaining_time becomes
\* duration * 60 only if the timer is not running.
C18_RevisionUpdateConfig ==
    [][op'.name = "update_config"
          => IF "duration" \notin DOMAIN call_arg' \/ call_arg'["duration"] <= 0
             THEN /\ op'.ret = "False"
                  /\ timer'.duration = timer.duration
                  /\ timer'.remaining_time = timer.remaining_time
             ELSE /\ op'.ret = "True"
                  /\ revision_get_timer_config(timer')
                        = [duration |-> call_arg'["duration"]]
                  /\ timer'.remaining_time =
                        IF timer.is_running THEN timer.remaining_time
                        ELSE call_arg'["duration"] * SecondsPerMinute]_vars

\* a running revision timer has taken a new duration and kept its
\* remaining_time
C18_Witness ==
    /\ op.name = "update_config"
    /\ op.ret = "True"
    /\ timer.is_running
    /\ timer.duration = call_arg["duration"] * SecondsPerMinute
    /\ timer.remaining_time # timer.duration

----------------------------------------------------------------------------
(* Who writes remaining_time, and under which value of the active flag *)

\* C20: the countdown driver writes remaining_time only while
\* is_timer_active is true, and the presentation thread (here
\* complete_session, called by handle_session_completion) writes it only
\* while is_timer_active is false.  reset_timer clears the flag before its
\* own write.
C20_SingleWriter ==
    [][/\ \A i \in 1..MaxThreads :
             threads[i].pc = "decrement" /\ threads'[i].pc # "decrement"
                 => is_timer_active
       /\ after_queue'["handle_session_completion"]
             < after_queue["handle_session_completion"]
                 => ~is_timer_active]_vars

----------------------------------------------------------------------------
(* save_timer_data and load_timer_data step by step, in the runs of SpecStore *)

\* C21: a save whose write of the primary succeeds reports success and
\* leaves the new snapshot in the primary, whatever became of the backup
\* copy; a successful save that finds a primary and copies it leaves the
\* primary's previous contents in the backup, so that the second of two
\* consecutive successful saves leaves the first one's snapshot there.
C21_BackupThenReplace ==
    [][op'.name = "save_timer_data"
          => /\ io'.write = "ok"
                   => /\ op'.ret = "True"
                      /\ primary_file' = json_dump(snapshot_data(timer))
             /\ op'.ret = "True" /\ primary_file.exists /\ io'.backup_copy = "ok"
                   => backup_file' = primary_file
             /\ (/\ op.name = "save_timer_data"
                 /\ op.ret = "True"
                 /\ op'.ret = "True"
                 /\ io'.backup_copy = "ok")
                   => backup_file' = json_dump(snapshot_data(timer))]_vars

\* two successful saves with a completed session between them: the backup
\* holds the shorter history of the first, the primary the longer one
C21_Witness ==
    /\ op.name = "save_timer_data"
    /\ op.ret = "True"
    /\ io.backup_copy = "ok"
    /\ primary_file = json_dump(snapshot_data(timer))
    /\ backup_file.json
    /\ RequiredKeys \subseteq DOMAIN backup_file.value
    /\ backup_file.value["timer_config"] = timer_get_timer_config(timer)
    /\ Len(backup_file.value["completed_sessions"]) + 1
          = Len(timer.completed_sessions)

\* C22: neither save nor load raises: whatever the state of the two files
\* and whatever the file system does, save_timer_data returns True or False
\* and load_timer_data returns a mapping or None.
C22_NeverRaises ==
    /\ op.name = "save_timer_data" => op.ret \in {"True", "False"}
    /\ op.name = "load_timer_data"
          => /\ op.ret \in {"None", "data"}
             /\ op.ret = "None" => loaded = NoneValue
             /\ op.ret = "data" => loaded = Some(loaded.data)

\* a load that found neither file usable (the primary did not parse, the
\* backup could not be read or did not parse) and returned None
C22_Witness ==
    /\ op.name = "load_timer_data"
    /\ primary_file = FileUnparsable
    /\ backup_file.exists
    /\ io.backup_read = "fails" \/ ~backup_file.json
    /\ loaded = NoneValue

----------------------------------------------------------------------------
(* The history of one cyclic timer: sessions completed while the timer is *)
(* started, paused and reset and its configuration replaced               *)

\* the mappings update_config is handed in these runs: those of the
\* settings dialog, and partial ones that set sessions_until_long_break
HistoryConfigs ==
    SettingsConfigs
    \cup {[work_duration |-> 1, short_break |-> 1,
           sessions_until_long_break |-> n] : n \in 0..MaxMinutes}

HistoryUpdateConfig ==
    /\ \E new_config \in HistoryConfigs :
          LET r == update_config(timer, new_config)
          IN  /\ timer' = r.timer
              /\ op' = [name |-> "update_config", ret |-> r.ret]
    /\ UNCHANGED <<appVars, diskVars, call_arg, stats>>

\* what reset_timer does to the timer
HistoryReset ==
    /\ timer' = reset_timer(timer)
    /\ op' = [name |-> "reset_timer", ret |-> "None"]
    /\ UNCHANGED <<appVars, diskVars, call_arg, stats>>

HistoryCompleteSession ==
    /\ Len(timer.completed_sessions) < MaxNumbered
    /\ LET r == complete_session(timer)
       IN  /\ timer' = r.timer
           /\ op' = [name |-> "complete_session", ret |-> r.ret]
    /\ UNCHANGED <<appVars, diskVars, call_arg, stats>>

NextHistory ==
    \/ TimerStart
    \/ TimerStop
    \/ HistoryUpdateConfig
    \/ HistoryReset
    \/ HistoryCompleteSession

SpecHistory == InitTimer /\ [][NextHistory]_vars

\* the work records among the first i records
WorkRecordsUpTo(i) ==
    {j \in 1..i : timer.completed_sessions[j].type = "work"}

\* C25: the work records carry the session numbers 1, 2, 3, ... in
\* completion order, and every break record carries the session number of the
\* most recent work record before it: each record's session number is the
\* number of work records up to and including it.
C25_SessionNumbering ==
    \A i \in DOMAIN timer.completed_sessions :
        timer.completed_sessions[i].session_number
            = Cardinality(WorkRecordsUpTo(i))

\* a history with a break numbered 1 between work sessions 1 and 2, and a
\* third work session recorded after a reset
C25_Witness ==
    /\ Len(timer.completed_sessions) >= 4
    /\ timer.completed_sessions[1].type = "work"
    /\ timer.completed_sessions[2].type # "work"
    /\ timer.completed_sessions[2].session_number = 1
    /\ timer.completed_sessions[3].type = "work"
    /\ timer.completed_sessions[3].session_number = 2
    /\ timer.completed_sessions[4].type = "work"
    /\ timer.completed_sessions[4].session_number = 3

----------------------------------------------------------------------------
(* Stopping the driver by the flag *)

\* C24: a thread that was in time.sleep when pause_timer or reset_timer
\* cleared the active flag sees the flag false at its next wake-up, makes no
\* further decrement and exits: from its wake-up it only leaves the loop and
\* passes the final test, whatever the presentation thread did meanwhile.
C24_StopsAtNextWakeUp ==
    \A i \in 1..MaxThreads :
        threads[i].stop_requested
            => threads[i].pc \in {"sleep", "while", "final"}

----------------------------------------------------------------------------
(* The history and the completion handler in the runs of SpecApp *)

\* C26: the history is append-only: no step of start, pause, reset, the
\* settings dialog or the driver changes it, and a step that does change it
\* is handle_session_completion's complete_session, which keeps every
\* record in place and adds exactly one.
C26_HistoryAppendOnly ==
    [][\/ timer'.completed_sessions = timer.completed_sessions
       \/ /\ after_queue'["handle_session_completion"]
                < after_queue["handle_session_completion"]
          /\ Len(timer'.completed_sessions)
                = Len(timer.completed_sessions) + 1
          /\ SubSeq(timer'.completed_sessions, 1,
                    Len(timer.completed_sessions))
                = timer.completed_sessions]_vars

\* two sessions recorded, and the driver counting again after a reset
C26_Witness ==
    /\ Len(timer.completed_sessions) = MaxRecords
    /\ timer.current_session_type = "work"
    /\ timer.completed_sessions[MaxRecords].type = "work"
    /\ timer.remaining_time > 0
    /\ timer.remaining_time
          < timer.timer_config["work_duration"] * SecondsPerMinute

\* C29: handle_session_completion calls complete_session only in a state
\* where is_timer_active is true and remaining_time <= 0: a pause or reset
\* handled between the driver's signal and the handler records no session.
C29_CompletesOnlyAtZero ==
    [][after_queue'["handle_session_completion"]
          < after_queue["handle_session_completion"]
          => /\ is_timer_active
             /\ timer.remaining_time <= 0]_vars

----------------------------------------------------------------------------
(* Switching between the Pomodoro and the Revision timer *)

\* the timer switch_timer builds: a new timer of the chosen type with the
\* constructor's defaults, then the saved configuration, total and history
\* when load_timer_data returned a snapshot; a KeyError of update_config
\* leaves the new timer as constructed
switched_timer(choice, saved_data) ==
    LET fresh == IF choice = "Pomodoro"
                 THEN PomodoroTimer(DefaultWorkMinutes, DefaultShortBreakMinutes,
                                    DefaultLongBreakMinutes)
                 ELSE RevisionTimer(DefaultRevisionMinutes)
        data == saved_data.data
        configured ==
            IF "timer_config" \in DOMAIN data
            THEN IF IsPomodoroTimer(fresh)
                 THEN update_config(fresh, data["timer_config"])
                 ELSE revision_update_config(fresh, data["timer_config"])
            ELSE [ret |-> "None", timer |-> fresh]
        counted ==
            IF "sessions_completed" \in DOMAIN data
            THEN [configured.timer EXCEPT
                     !.total_sessions = data["sessions_completed"]]
            ELSE configured.timer
    IN  IF saved_data.is_none \/ DOMAIN data = {}
        THEN fresh
        ELSE IF configured.ret = "KeyError"
        THEN fresh
        ELSE IF "completed_sessions" \in DOMAIN data
        THEN [counted EXCEPT !.completed_sessions = data["completed_sessions"]]
        ELSE counted

\* PomodoroApplication.switch_timer, bound to the combobox's selection event:
\* the files are read without error
AppSwitchTimer ==
    /\ \E choice \in {"Pomodoro", "Revision"} :
          /\ timer_type_var' = choice
          /\ timer' = switched_timer(choice,
                          load_timer_data(primary_file, backup_file, "ok", "ok"))
    /\ io' = [NoIo EXCEPT !.primary_read = IF primary_file.exists
                                           THEN "ok" ELSE "none"]
    /\ signals' = CountSignals(timer'.remaining_time, 0)
    /\ pause_mark' = NotPaused
    /\ UNCHANGED <<is_timer_active, threads, after_queue, primary_file,
                   backup_file, loaded, op, call_arg, stats>>

\* start_timer from the button, followed when no thread of an earlier start is
\* still alive: two threads at once are the runs of SpecApp
SwitchStart ==
    /\ LiveThreads = {}
    /\ AppStart

\* start_timer from the queued callback, under the same condition
SwitchDelayedStart ==
    /\ is_timer_active \/ LiveThreads = {}
    /\ AppDelayedStart

\* timer_countdown, followed while the countdown is at most AppMinutes long
SwitchCountdown(i) ==
    /\ timer.remaining_time <= AppMinutes * SecondsPerMinute
    /\ timer_countdown(i)

NextSwitch ==
    \/ SwitchStart
    \/ SwitchDelayedStart
    \/ AppPause
    \/ AppReset
    \/ AppSwitchTimer
    \/ HandleSessionCompletion
    \/ \E i \in 1..MaxThreads : SwitchCountdown(i)

SpecSwitch == InitApp /\ [][NextSwitch]_vars

\* C30: is_timer_active equals the current timer's is_timer_running() in every
\* state reached through start_timer, pause_timer, reset_timer,
\* handle_session_completion and switch_timer.
C30_FlagsAgree == is_timer_active = timer.is_running

----------------------------------------------------------------------------
(* The countdown left alone: no pause, reset, settings or switch; a thread *)
(* that can take a step is eventually scheduled                            *)

NextCountdown ==
    \/ AppStart
    \/ AppDelayedStart
    \/ HandleSessionCompletion
    \/ \E i \in 1..MaxThreads : timer_countdown(i)

SpecCountdown ==
    /\ InitApp
    /\ [][NextCountdown]_vars
    /\ WF_vars(\E i \in 1..MaxThreads : timer_countdown(i))

\* C28: a timer started with remaining_time = n > 0 and not paused, reset or
\* switched has its completion signalled eventually, after exactly n
\* decrements: the handler is queued, it is queued only at remaining_time = 0,
\* and while the timer stays active remaining_time changes only by one second
\* down.
C28_CountdownCompletes ==
    /\ (is_timer_active /\ timer.remaining_time > 0)
          ~> (after_queue["handle_session_completion"] > 0)
    /\ [](after_queue["handle_session_completion"] > 0
              => timer.remaining_time = 0)
    /\ [][(is_timer_active /\ is_timer_active'
             /\ timer'.remaining_time # timer.remaining_time)
              => timer'.remaining_time = timer.remaining_time - 1]_vars

\* the second session of a run has counted down and is signalled
C28_Witness ==
    /\ after_queue["handle_session_completion"] = 1
    /\ timer.remaining_time = 0
    /\ is_timer_active
    /\ Len(timer.completed_sessions) = 1

----------------------------------------------------------------------------
(* The save at the end of handle_session_completion *)

\* the primary file holds the timer's history and total session count
StoreHoldsTimer ==
    /\ primary_file.exists
    /\ primary_file.json
    /\ primary_file.value["completed_sessions"] = timer.completed_sessions
    /\ primary_file.value["sessions_completed"] = get_total_sessions(timer)

\* the main loop runs handle_session_completion in this step
HandlerRuns ==
    after_queue'["handle_session_completion"]
        < after_queue["handle_session_completion"]

----------------------------------------------------------------------------
(* The two session counters of the cyclic timer *)

\* C31: for the cyclic timer _sessions_completed, the counter behind the
\* long-break cadence and the session numbers, equals _total_sessions, the
\* counter displayed and saved, in every state reached through switch_timer,
\* complete_session, reset and update_config.
C31_CountersAgree ==
    IsPomodoroTimer(timer) => timer.sessions_completed = timer.total_sessions

----------------------------------------------------------------------------
(* Saves that fail half-way: no file to begin with, every backup copy made, *)
(* and a write that fails leaving the primary file unparsable               *)

InitDurable ==
    /\ timer \in FreshTimers
    /\ primary_file = FileAbsent
    /\ backup_file = FileAbsent
    /\ is_timer_active = FALSE
    /\ timer_type_var = "Pomodoro"
    /\ threads = NoThreads
    /\ after_queue = NoCallbacks
    /\ signals = 0
    /\ pause_mark = NotPaused
    /\ loaded = NoneValue
    /\ io = NoIo
    /\ op = NoOp
    /\ call_arg = EmptyMap
    /\ stats = EmptyMap

DurableSave ==
    /\ \E write_io \in {"ok", "cut_short"} :
          LET r == save_timer_data(timer, primary_file, backup_file,
                                   "ok", write_io)
          IN  /\ primary_file' = r.primary
              /\ backup_file' = r.backup
              /\ op' = [name |-> "save_timer_data", ret |-> r.ret]
              /\ io' = [NoIo EXCEPT !.backup_copy =
                                        IF primary_file.exists THEN "ok"
                                        ELSE "none",
                                    !.write = write_io]
    /\ UNCHANGED <<timer, appVars, loaded, call_arg, stats>>

DurableLoad ==
    /\ LET r == load_timer_data(primary_file, backup_file, "ok", "ok")
       IN  /\ loaded' = r
           /\ op' = [name |-> "load_timer_data", ret |-> load_outcome(r)]
           /\ io' = [NoIo EXCEPT
                        !.primary_read = IF primary_file.exists
                                         THEN "ok" ELSE "none",
                        !.backup_read = IF primary_file.exists
                                           /\ ~primary_file.json
                                           /\ backup_file.exists
                                        THEN "ok" ELSE "none"]
    /\ UNCHANGED <<timer, appVars, primary_file, backup_file, call_arg, stats>>

NextDurable ==
    \/ DurableSave
    \/ DurableLoad
    \/ StoreCompleteSession

SpecDurable == InitDurable /\ [][NextDurable]_vars

\* a load of the two files as they are returns a snapshot
LoadReturnsSnapshot(primary, backup) ==
    ~load_timer_data(primary, backup, "ok", "ok").is_none

\* C32: saved history is never lost to failed writes: starting without files,
\* a load returns a snapshot only once a save has succeeded, and from then on
\* every load returns one, whatever saves follow: no step takes the files from
\* a state where load returns a snapshot to one where it returns the absent
\* value.
C32_SnapshotNeverLost ==
    [][LoadReturnsSnapshot(primary_file, backup_file)
          => LoadReturnsSnapshot(primary_file', backup_file')]_vars

----------------------------------------------------------------------------
(* The shape of what load returns *)

\* C33: every result of load other than the absent value, from the primary
\* file or from the backup, contains the three required keys timer_config,
\* sessions_completed and completed_sessions.
C33_LoadedHasRequiredKeys ==
    (op.name = "load_timer_data" /\ op.ret = "data")
        => RequiredKeys \subseteq DOMAIN loaded.data

----------------------------------------------------------------------------
(* What reset_timer changes and what it leaves *)

\* C34: reset_timer, from any state, leaves the active flag and the running
\* flag false, the cyclic timer at a work session with remaining_time =
\* work_duration * 60 (the revision timer at its configured duration), and the
\* configuration, both session counters and the history as they were.
C34_ResetEffect ==
    [][AppReset =>
          /\ ~is_timer_active'
          /\ ~timer'.is_running
          /\ IF IsPomodoroTimer(timer)
             THEN /\ timer'.current_session_type = "work"
                  /\ timer'.remaining_time =
                        timer.timer_config["work_duration"] * SecondsPerMinute
             ELSE /\ timer'.remaining_time = timer.duration
                  /\ timer'.duration = timer.duration
                  /\ timer'.current_session_type = timer.current_session_type
          /\ timer'.kind = timer.kind
          /\ timer'.timer_config = timer.timer_config
          /\ timer'.sessions_completed = timer.sessions_completed
          /\ timer'.total_sessions = timer.total_sessions
          /\ timer'.completed_sessions = timer.completed_sessions]_vars

\* a cyclic timer reset after its first work session, in place of the break
\* that was due, with its counters and its record kept
C34_Witness ==
    /\ IsPomodoroTimer(timer)
    /\ ~is_timer_active
    /\ ~timer.is_running
    /\ timer.sessions_completed = 1
    /\ timer.total_sessions = 1
    /\ Len(timer.completed_sessions) = 1
    /\ timer.completed_sessions[1].type = "work"
    /\ timer.current_session_type = "work"
    /\ timer.remaining_time =
          timer.timer_config["work_duration"] * SecondsPerMinute
    /\ pause_mark = NotPaused

----------------------------------------------------------------------------
(* The cadence of long breaks: a new cyclic timer given its period N by    *)
(* update_config, then complete_session alone, long enough for two long    *)
(* breaks                                                                  *)

InitCadence ==
    /\ \E w \in 1..MaxMinutes, s \in 1..MaxMinutes, l \in 1..MaxMinutes,
          N \in 2..MaxPeriod :
          timer = update_config(PomodoroTimer(w, s, l),
                                [work_duration |-> w, short_break |-> s,
                                 sessions_until_long_break |-> N]).timer
    /\ RestInit

CadenceCompleteSession ==
    /\ Len(timer.completed_sessions) < 4 * MaxPeriod
    /\ LET r == complete_session(timer)
       IN  /\ timer' = r.timer
           /\ op' = [name |-> "complete_session", ret |-> r.ret]
    /\ UNCHANGED <<appVars, diskVars, call_arg, stats>>

NextCadence == CadenceCompleteSession

SpecCadence == InitCadence /\ [][NextCadence]_vars

\* the work sessions i .. i + N - 1 have all been completed
WindowCompleted(i) ==
    Len(timer.completed_sessions)
        >= 2 * (i + timer.timer_config["sessions_until_long_break"] - 1) - 1

\* C35: with sessions_until_long_break = N >= 2 and complete_session alone,
\* among any N consecutive work sessions exactly one is followed by a
\* long_break: N work sessions lie between two consecutive long breaks.
C35_LongBreakCadence ==
    \A i \in 1..(2 * MaxPeriod) :
        WindowCompleted(i)
            => Cardinality({j \in i..(i + timer.timer_config[
                                            "sessions_until_long_break"] - 1) :
                               BreakAfter(j) = "long_break"}) = 1

\* a period of 3: the breaks after work sessions 2 and 5 were long, the four
\* others short
C35_Witness ==
    /\ timer.timer_config["sessions_until_long_break"] = 3
    /\ Len(timer.completed_sessions) >= 10
    /\ \A j \in 1..5 :
          timer.completed_sessions[2 * j].type =
              IF j \in {2, 5} THEN "long_break" ELSE "short_break"

----------------------------------------------------------------------------
(* The session counts the timer reports, in the runs of SpecHistory *)

\* C36: on a cyclic timer built by the constructor, after any sequence of
\* complete_session, update_config and reset, get_statistics' total_sessions
\* equals get_total_sessions() and the third component of
\* get_current_session_info(), and get_statistics' completed_sessions equals
\* the length of the history.
C36_ReportedCountsAgree ==
    /\ get_statistics(timer)["total_sessions"] = get_total_sessions(timer)
    /\ get_statistics(timer)["total_sessions"] =
          get_current_session_info(timer)[3]
    /\ get_statistics(timer)["completed_sessions"] =
          Len(timer.completed_sessions)

\* three work sessions and one break on record: work sessions completed back
\* to back, after a reset or after a complete_session that raised
C36_Witness ==
    /\ Len(timer.completed_sessions) = 4
    /\ get_statistics(timer)["total_sessions"] = 3
    /\ get_total_sessions(timer) = 3
    /\ get_current_session_info(timer)[3] = 3
    /\ get_statistics(timer)["completed_sessions"] = 4

=============================================================================
